---- MODULE Spec2Model ----
(***************************************************************************)
(* The Turnstile component of src/src/lib.tsx: the module-level loader     *)
(* state (turnstileState, turnstileLoadPromise, ensureTurnstile), the      *)
(* per-component hooks (inject, waitForTurnstile, renderWidget, the        *)
(* fallback readiness effect, the style effect) and the imperative handle. *)
(*                                                                         *)
(* JavaScript runs one task at a time, so every handler is one atomic      *)
(* action.  A handler is written as a function from the world (a record of *)
(* all variables) to the world, so that the statements of the source       *)
(* compose in the order the source runs them.                              *)
(***************************************************************************)
EXTENDS Integers, Sequences, FiniteSets, TLC

\* ------------------------------------------------------------------ bounds
MaxControllers == 2
MaxWidgets == 3
\* the clock of a getResponsePromise call stops here
MaxTime == 5

Controllers == 1..MaxControllers

\* window property names a controller may pass as scriptOptions.onLoadCallbackName
\* (DEFAULT_ONLOAD_NAME when unset, lib.tsx:82)
CallbackNames == {"onloadTurnstileCallback", "customOnload"}

Executions == {"render", "execute"}
Appearances == {"always", "interaction-only"}
\* options.size; "unset" when the prop is absent
Sizes == {"unset", "normal", "compact"}

\* the timeout and retry arguments of getResponsePromise, in clock ticks
Timeouts == {1, 2, 3}
Retries == {1, 2}

Tokens == {"XYZ", "ABC"}
NoToken == ""
NoId == 0

VARIABLES
    turnstileState,   \* lib.tsx:22  'unloaded' | 'loading' | 'ready'
    turnstileLoad,    \* lib.tsx:24-32  the deferred and its promise
    window,           \* the global callback slots and window.turnstile
    document,         \* the script tag the injection collaborator manages
    widgets,          \* the external library's registry, indexed by widget id
    ctl,              \* one record per component instance
    last,             \* what the imperative handle call of this step did
    poll              \* the getResponsePromise call in progress, and its clock

vars == <<turnstileState, turnstileLoad, window, document, widgets, ctl, last, poll>>

\* ------------------------------------------------------------------ world
World ==
    [turnstileState |-> turnstileState, turnstileLoad |-> turnstileLoad,
     window |-> window, document |-> document, widgets |-> widgets,
     ctl |-> ctl, last |-> last, poll |-> poll]

Becomes(w) ==
    /\ turnstileState' = w.turnstileState
    /\ turnstileLoad' = w.turnstileLoad
    /\ window' = w.window
    /\ document' = w.document
    /\ widgets' = w.widgets
    /\ ctl' = w.ctl
    /\ last' = w.last
    /\ poll' = w.poll

\* last: op, the handle method called in the step that led here ("none" when
\* the step was no handle call); pre, whether its guard let it through; held,
\* widgetId.current when it was called; ext, the external library call it
\* made; extThrew, whether that call threw; threw, whether an exception
\* reached the caller; ret and tok, the id or the token it returned.
NoCall == [op |-> "none", c |-> 0, pre |-> FALSE, held |-> NoId, ext |-> "none",
           extThrew |-> FALSE, threw |-> FALSE, ret |-> NoId, tok |-> NoToken]

\* A step that is no handle call.
Quiet(w) == [w EXCEPT !.last = NoCall]

NoWake == -1

\* No getResponsePromise call has been made.
IdlePoll ==
    [active |-> FALSE, c |-> 0, now |-> 0, timeout |-> 0, retry |-> 0,
     timeoutId |-> "unset", timeoutAt |-> 0, timers |-> 0,
     wakeAt |-> NoWake,
     outcome |-> "pending", value |-> NoToken, settledAt |-> 0, settleCalls |-> 0,
     sawSolved |-> FALSE]

\* A component instance before it is mounted.
Unmounted ==
    [phase |-> "unmounted",
     injectScript |-> TRUE, onLoadCallbackName |-> "onloadTurnstileCallback",
     execution |-> "render", appearance |-> "always", size |-> "normal",
     containerStyle |-> "normal",
     turnstileLoaded |-> FALSE, scriptLoaded |-> FALSE,
     depLoaded |-> FALSE, depScript |-> FALSE,
     hasCleanup |-> FALSE,
     widgetId |-> NoId, widgetSolved |-> FALSE,
     handle |-> "none", injectCalls |-> 0,
     autoRenders |-> 0, readyMarks |-> 0]

\* lib.tsx:22-32: the module is evaluated once; the page may already hold a
\* script tag that was injected by hand without the onload parameter
\* (the case the comment at lib.tsx:325 names).
Init ==
    /\ turnstileState = "unloaded"
    /\ turnstileLoad = [resolveCalls |-> 0, settled |-> FALSE, waiters |-> {}]
    /\ window = [callbacks |-> {}, installs |-> 0, turnstile |-> FALSE]
    /\ \E manual \in BOOLEAN :
          document = [script |-> IF manual THEN "loading" ELSE "none",
                      onload |-> "none", tags |-> IF manual THEN 1 ELSE 0]
    /\ widgets = <<>>
    /\ ctl = [c \in Controllers |-> Unmounted]
    /\ last = NoCall
    /\ poll = IdlePoll

\* ------------------------------------------------------- external library
\* window.turnstile.render(container, config): registers a widget and returns
\* its id, or returns nothing (ok = FALSE) when the library refuses to render.
libRender(w, c, ok) ==
    IF ok
    THEN [w EXCEPT !.widgets = Append(@, [owner |-> c, live |-> TRUE,
                                          token |-> NoToken, solvedSince |-> FALSE,
                                          loadCalls |-> 0, removeCalls |-> 0])]
    ELSE w

\* the id the render call above returned
renderedId(w, ok) == IF ok THEN Len(w.widgets) + 1 ELSE NoId

\* window.turnstile.remove(id)
libRemove(w, id) ==
    [w EXCEPT !.widgets[id].live = FALSE,
              !.widgets[id].token = NoToken,
              !.widgets[id].solvedSince = FALSE,
              !.widgets[id].removeCalls = @ + 1]

\* window.turnstile.reset(id)
libReset(w, id) ==
    [w EXCEPT !.widgets[id].token = NoToken,
              !.widgets[id].solvedSince = FALSE]

\* window.turnstile.getResponse(id): the token of a registered widget
libGetResponse(w, id) ==
    IF w.widgets[id].live THEN w.widgets[id].token ELSE NoToken

\* the onWidgetLoad prop, called with a widget id
onWidgetLoad(w, id) == [w EXCEPT !.widgets[id].loadCalls = @ + 1]

\* ---------------------------------------------------- global loader state
\* ensureTurnstile without the test of turnstileState
ensureTurnstileUnguarded(w, onLoadCallbackName) ==
    [w EXCEPT !.turnstileState = "loading",
              !.window.callbacks = @ \cup {onLoadCallbackName},
              !.window.installs = @ + 1]

\* lib.tsx:34-44
ensureTurnstile(w, onLoadCallbackName) ==
    IF w.turnstileState = "unloaded"
    THEN [w EXCEPT !.turnstileState = "loading",
                   !.window.callbacks = @ \cup {onLoadCallbackName},
                   !.window.installs = @ + 1]
    ELSE w

\* a continuation that renders into the container as soon as the signal
\* arrives, whether or not its component is still mounted
thenRenderAtOnce(w) ==
    IF w.turnstileLoad.waiters = {}
    THEN w
    ELSE LET c == CHOOSE x \in w.turnstileLoad.waiters : TRUE
             id == renderedId(w, TRUE)
         IN onWidgetLoad([libRender(w, c, TRUE) EXCEPT
                             !.ctl[c].turnstileLoaded = TRUE,
                             !.ctl[c].widgetId = id,
                             !.turnstileLoad.waiters = {}],
                         id)

\* lib.tsx:152: the continuations of turnstileLoadPromise, each the
\* setTurnstileLoaded(true) of a component that waits; setting the state of a
\* component that has unmounted renders nothing
thenSetLoaded(w) ==
    [w EXCEPT !.ctl = [c \in Controllers |->
                          IF c \in w.turnstileLoad.waiters /\ w.ctl[c].phase = "mounted"
                          THEN [w.ctl[c] EXCEPT !.turnstileLoaded = TRUE,
                                                !.readyMarks = @ + 1]
                          ELSE w.ctl[c]],
              !.turnstileLoad.waiters = {}]

\* the installed function without the assignment of line 39
onLoadCallbackResolveOnly(w, onLoadCallbackName) ==
    thenSetLoaded(
        [w EXCEPT !.turnstileLoad.resolveCalls = @ + 1,
                  !.turnstileLoad.settled = TRUE,
                  !.window.callbacks = @ \ {onLoadCallbackName}])

\* lib.tsx:37-41: the function installed on the window; the continuations of
\* the promise are microtasks and run when it has returned
onLoadCallback(w, onLoadCallbackName) ==
    thenSetLoaded(
        [w EXCEPT !.turnstileLoad.resolveCalls = @ + 1,
                  !.turnstileLoad.settled = TRUE,
                  !.turnstileState = "ready",
                  !.window.callbacks = @ \ {onLoadCallbackName}])

\* utils: injectTurnstileScript({onLoadCallbackName, scriptOptions}): one
\* script tag per script id, wired to call the named callback on load
injectTurnstileScript(w, c) ==
    LET counted == [w EXCEPT !.ctl[c].injectCalls = @ + 1]
    IN IF w.document.script = "none"
       THEN [counted EXCEPT !.document =
                [script |-> "loading",
                 onload |-> w.ctl[c].onLoadCallbackName,
                 tags |-> w.document.tags + 1]]
       ELSE counted

\* ----------------------------------------------------------- the effects
\* lib.tsx:65
widgetSize(size) == IF size = "unset" THEN "normal" ELSE size

\* the style chosen with the test of the appearance first
styleForAppearanceFirst(execution, appearance, size) ==
    IF appearance = "interaction-only" THEN "interactionOnly"
    ELSE IF execution = "execute" THEN "invisible"
    ELSE size

\* lib.tsx:67-73 and 335-339; size is widgetSize
styleFor(execution, appearance, size) ==
    IF execution = "execute" THEN "invisible"
    ELSE IF appearance = "interaction-only" THEN "interactionOnly"
    ELSE size

\* inject without the test of turnstileLoaded
injectWheneverRun(w, c) ==
    IF w.ctl[c].injectScript
    THEN injectTurnstileScript(w, c)
    ELSE w

\* lib.tsx:134-147
inject(w, c) ==
    IF w.ctl[c].injectScript /\ ~w.ctl[c].depLoaded
    THEN injectTurnstileScript(w, c)
    ELSE w

\* lib.tsx:149-155
waitForTurnstile(w, c) ==
    IF w.turnstileState # "ready"
    THEN [ensureTurnstile(w, w.ctl[c].onLoadCallbackName)
            EXCEPT !.turnstileLoad.waiters = @ \cup {c}]
    ELSE w

\* lib.tsx:172-175: the cleanup the previous run of renderWidget returned.
\* It leaves widgetId.current as it is.  The external remove is taken to
\* return here: an exception would leave the cleanup for the framework's
\* commit, which is no code of this repository.
renderWidgetCleanup(w, c) ==
    IF w.ctl[c].hasCleanup /\ w.ctl[c].widgetId # NoId
    THEN libRemove(w, w.ctl[c].widgetId)
    ELSE w

\* lib.tsx:163-168: render() is async but holds no await, so it runs to its
\* end inside the effect
renderWidgetRender(w, c, ok) ==
    LET id == renderedId(w, ok)
        r == [libRender(w, c, ok) EXCEPT !.ctl[c].widgetId = id,
                                         !.ctl[c].autoRenders = @ + 1]
    IN IF id # NoId THEN onWidgetLoad(r, id) ELSE r

\* lib.tsx:157-178: containerRef.current is the mounted container
renderWidget(w, c, ok) ==
    IF ~w.ctl[c].depLoaded
    THEN [w EXCEPT !.ctl[c].hasCleanup = FALSE]
    ELSE [renderWidgetRender(w, c, ok) EXCEPT !.ctl[c].hasCleanup = TRUE]

\* lib.tsx:180-183: the handle captures window.turnstile when it is created
attachHandle(w, c) ==
    [w EXCEPT !.ctl[c].handle = IF w.window.turnstile THEN "lib" ELSE "nolib"]

\* lib.tsx:326-330
fallbackReady(w, c) ==
    IF w.ctl[c].depScript /\ ~w.ctl[c].depLoaded /\ w.window.turnstile
    THEN [w EXCEPT !.ctl[c].turnstileLoaded = TRUE,
                   !.ctl[c].readyMarks = @ + 1]
    ELSE w

\* lib.tsx:333-341
updateStyle(w, c) ==
    [w EXCEPT !.ctl[c].containerStyle =
        styleFor(w.ctl[c].execution, w.ctl[c].appearance,
                 widgetSize(w.ctl[c].size))]

\* a commit whose render effect has no dependency list and runs every time
commitRenderingAlways(w, c, first, configChanged, styleChanged, ok) ==
    LET loadedChanged == first \/ w.ctl[c].turnstileLoaded # w.ctl[c].depLoaded
        scriptChanged == first \/ w.ctl[c].scriptLoaded # w.ctl[c].depScript
        w0 == [w EXCEPT !.ctl[c].depLoaded = w.ctl[c].turnstileLoaded,
                        !.ctl[c].depScript = w.ctl[c].scriptLoaded,
                        !.ctl[c].autoRenders = IF configChanged THEN 0 ELSE @]
        w1 == IF loadedChanged THEN inject(w0, c) ELSE w0
        w2 == IF first THEN waitForTurnstile(w1, c) ELSE w1
        w3 == renderWidget(renderWidgetCleanup(w2, c), c, ok)
        w4 == IF loadedChanged \/ configChanged THEN attachHandle(w3, c) ELSE w3
        w5 == IF loadedChanged \/ scriptChanged THEN fallbackReady(w4, c) ELSE w4
        w6 == IF first \/ styleChanged THEN updateStyle(w5, c) ELSE w5
    IN w6

\* One render of the component followed by its effects, in hook order; an
\* effect runs when one of its dependencies differs from the previous render.
\* depLoaded and depScript are the values of turnstileLoaded and scriptLoaded
\* this render saw.  autoRenders counts the render calls of the render effect
\* for the configuration in force, readyMarks the calls of
\* setTurnstileLoaded(true).
commit(w, c, first, configChanged, styleChanged, ok) ==
    LET loadedChanged == first \/ w.ctl[c].turnstileLoaded # w.ctl[c].depLoaded
        scriptChanged == first \/ w.ctl[c].scriptLoaded # w.ctl[c].depScript
        w0 == [w EXCEPT !.ctl[c].depLoaded = w.ctl[c].turnstileLoaded,
                        !.ctl[c].depScript = w.ctl[c].scriptLoaded,
                        !.ctl[c].autoRenders = IF configChanged THEN 0 ELSE @]
        w1 == IF loadedChanged THEN inject(w0, c) ELSE w0
        w2 == IF first THEN waitForTurnstile(w1, c) ELSE w1
        w3 == IF loadedChanged \/ configChanged
              THEN renderWidget(renderWidgetCleanup(w2, c), c, ok) ELSE w2
        w4 == IF loadedChanged \/ configChanged THEN attachHandle(w3, c) ELSE w3
        w5 == IF loadedChanged \/ scriptChanged THEN fallbackReady(w4, c) ELSE w4
        w6 == IF first \/ styleChanged THEN updateStyle(w5, c) ELSE w5
    IN w6

\* ------------------------------------------------- the imperative handle
Refused(w, op, c) ==
    [w EXCEPT !.last = [NoCall EXCEPT !.op = op, !.c = c,
                                      !.held = w.ctl[c].widgetId]]

Called(w, op, c, held, extThrew, threw, ret, tok) ==
    [w EXCEPT !.last = [op |-> op, c |-> c, pre |-> TRUE, held |-> held,
                        ext |-> op, extThrew |-> extThrew, threw |-> threw,
                        ret |-> ret, tok |-> tok]]

\* lib.tsx:130-132
checkIfTurnstileLoaded(w) == w.window.turnstile

\* the guard shared by getResponse, reset, remove and isExpired
\* (lib.tsx:186, 232, 250, 304); turnstile is the captured window.turnstile
hasWidget(w, c) ==
    /\ w.ctl[c].handle = "lib"
    /\ w.ctl[c].widgetId # NoId
    /\ checkIfTurnstileLoaded(w)

\* lib.tsx:185-192
getResponse(w, c) ==
    IF ~hasWidget(w, c)
    THEN Refused(w, "getResponse", c)
    ELSE Called(w, "getResponse", c, w.ctl[c].widgetId, FALSE, FALSE, NoId,
                libGetResponse(w, w.ctl[c].widgetId))

\* reset with solved cleared after the external call instead of before it
resetClearingLast(w, c, throws) ==
    IF ~hasWidget(w, c)
    THEN Refused(w, "reset", c)
    ELSE LET id == w.ctl[c].widgetId
             w1 == IF w.ctl[c].execution = "execute"
                   THEN [w EXCEPT !.ctl[c].containerStyle = "invisible"]
                   ELSE w
             w2 == IF throws
                   THEN w1
                   ELSE [libReset(w1, id) EXCEPT !.ctl[c].widgetSolved = FALSE]
         IN Called(w2, "reset", c, id, throws, FALSE, NoId, NoToken)

\* lib.tsx:231-247; throws: the external reset call throws
reset(w, c, throws) ==
    IF ~hasWidget(w, c)
    THEN Refused(w, "reset", c)
    ELSE LET id == w.ctl[c].widgetId
             w1 == IF w.ctl[c].execution = "execute"
                   THEN [w EXCEPT !.ctl[c].containerStyle = "invisible"]
                   ELSE w
             w2 == [w1 EXCEPT !.ctl[c].widgetSolved = FALSE]
             w3 == IF throws THEN w2 ELSE libReset(w2, id)
         IN Called(w3, "reset", c, id, throws, FALSE, NoId, NoToken)

\* lib.tsx:249-259; throws: the external remove call throws, and the handler
\* has no try around it
remove(w, c, throws) ==
    IF ~hasWidget(w, c)
    THEN Refused(w, "remove", c)
    ELSE LET id == w.ctl[c].widgetId
             w1 == [w EXCEPT !.ctl[c].containerStyle = "invisible",
                             !.ctl[c].widgetSolved = FALSE]
         IN IF throws
            THEN Called(w1, "remove", c, id, TRUE, TRUE, NoId, NoToken)
            ELSE Called([libRemove(w1, id) EXCEPT !.ctl[c].widgetId = NoId],
                        "remove", c, id, FALSE, FALSE, NoId, NoToken)

\* the guard of render without the test of widgetId.current
renderRefusedIgnoringId(w, c) ==
    \/ w.ctl[c].handle # "lib"
    \/ w.ctl[c].phase # "mounted"
    \/ ~checkIfTurnstileLoaded(w)

\* lib.tsx:262-267
renderRefused(w, c) ==
    \/ w.ctl[c].handle # "lib"
    \/ w.ctl[c].phase # "mounted"
    \/ ~checkIfTurnstileLoaded(w)
    \/ w.ctl[c].widgetId # NoId

\* lib.tsx:261-281
render(w, c, ok) ==
    IF renderRefused(w, c)
    THEN Refused(w, "render", c)
    ELSE LET id == renderedId(w, ok)
             w1 == [libRender(w, c, ok) EXCEPT !.ctl[c].widgetId = id]
             w2 == IF id # NoId THEN onWidgetLoad(w1, id) ELSE w1
             w3 == IF w.ctl[c].execution # "execute"
                   THEN [w2 EXCEPT !.ctl[c].containerStyle = widgetSize(w.ctl[c].size)]
                   ELSE w2
         IN Called(w3, "render", c, NoId, FALSE, FALSE, id, NoToken)

\* execute without the test of options.execution
executeInAnyMode(w, c) ==
    IF ~(hasWidget(w, c) /\ w.ctl[c].phase = "mounted")
    THEN Refused(w, "execute", c)
    ELSE Called([w EXCEPT !.ctl[c].containerStyle = widgetSize(w.ctl[c].size)],
                "execute", c, w.ctl[c].widgetId, FALSE, FALSE, NoId, NoToken)

\* execute showing the container in the style of the normal size
executeShowingNormal(w, c) ==
    IF w.ctl[c].execution # "execute"
    THEN Refused(w, "execute", c)
    ELSE IF ~(hasWidget(w, c) /\ w.ctl[c].phase = "mounted")
    THEN Refused(w, "execute", c)
    ELSE Called([w EXCEPT !.ctl[c].containerStyle = "normal"],
                "execute", c, w.ctl[c].widgetId, FALSE, FALSE, NoId, NoToken)

\* lib.tsx:283-301
execute(w, c) ==
    IF w.ctl[c].execution # "execute"
    THEN Refused(w, "execute", c)
    ELSE IF ~(hasWidget(w, c) /\ w.ctl[c].phase = "mounted")
    THEN Refused(w, "execute", c)
    ELSE Called([w EXCEPT !.ctl[c].containerStyle = widgetSize(w.ctl[c].size)],
                "execute", c, w.ctl[c].widgetId, FALSE, FALSE, NoId, NoToken)

\* lib.tsx:303-310
isExpired(w, c) ==
    IF ~hasWidget(w, c)
    THEN Refused(w, "isExpired", c)
    ELSE Called(w, "isExpired", c, w.ctl[c].widgetId, FALSE, FALSE, NoId, NoToken)

\* ---------------------------------------------------- getResponsePromise
\* resolve or reject of the promise built at lib.tsx:195: the first call
\* settles it, later calls change nothing
settle(p, outcome, value) ==
    IF p.outcome = "pending"
    THEN [p EXCEPT !.outcome = outcome, !.value = value, !.settledAt = p.now,
                   !.settleCalls = @ + 1]
    ELSE [p EXCEPT !.settleCalls = @ + 1]

\* if (timeoutId) clearTimeout(timeoutId)
clearTimeoutId(p) ==
    IF p.timeoutId = "pending" THEN [p EXCEPT !.timeoutId = "cleared"] ELSE p

\* lib.tsx:216-221 with retry in the place of timeout
startTimeoutAfterRetry(p) ==
    IF p.timeoutId = "unset"
    THEN [p EXCEPT !.timeoutId = "pending", !.timeoutAt = p.now + p.retry,
                   !.timers = @ + 1]
    ELSE p

\* lib.tsx:216-221 without the test of timeoutId
startTimeoutEveryPoll(p) ==
    [p EXCEPT !.timeoutId = "pending", !.timeoutAt = p.now + p.timeout,
              !.timers = @ + 1]

\* lib.tsx:216-221: the variable timeoutId stays set once a timer was made
startTimeout(p) ==
    IF p.timeoutId = "unset"
    THEN [p EXCEPT !.timeoutId = "pending", !.timeoutAt = p.now + p.timeout,
                   !.timers = @ + 1]
    ELSE p

\* lib.tsx:199
solvedWithWidget(w) ==
    /\ w.ctl[w.poll.c].widgetSolved
    /\ w.window.turnstile
    /\ w.ctl[w.poll.c].widgetId # NoId

\* lib.tsx:200-213 without the test of the token
respondAnyToken(p, token, throws) ==
    IF throws
    THEN settle(clearTimeoutId(p), "failed", NoToken)
    ELSE settle(clearTimeoutId(p), "fulfilled", token)

\* lib.tsx:200-213; throws: window.turnstile.getResponse throws
respond(p, token, throws) ==
    IF throws
    THEN settle(clearTimeoutId(p), "failed", NoToken)
    ELSE IF token # NoToken
    THEN settle(clearTimeoutId(p), "fulfilled", token)
    ELSE settle(clearTimeoutId(p), "noResponse", NoToken)

\* lib.tsx:198-225: one run of checkLoaded up to its return or its sleep
checkLoaded(w, throws) ==
    IF solvedWithWidget(w)
    THEN [w EXCEPT !.poll =
            [respond(w.poll, libGetResponse(w, w.ctl[w.poll.c].widgetId), throws)
                EXCEPT !.wakeAt = NoWake]]
    ELSE [w EXCEPT !.poll =
            [startTimeout(w.poll) EXCEPT !.wakeAt = w.poll.now + w.poll.retry]]

\* lib.tsx:217-220: the timeout timer fires
timeoutFired(p) ==
    settle([p EXCEPT !.timeoutId = "fired"], "timeout", NoToken)

\* whether solved has been true at some moment of the call in progress
noteSolved(w) ==
    [w EXCEPT !.poll.sawSolved =
        @ \/ (w.poll.active /\ w.ctl[w.poll.c].widgetSolved)]

\* ---------------------------------------------------------------- actions
\* Components mount in index order (the instances are interchangeable).  The
\* props of the new instance are drawn from the given sets.
Mount(c, Injects, Names, Execs, Apps, Szs) ==
    /\ ctl[c].phase = "unmounted"
    /\ IF c = 1 THEN TRUE ELSE ctl[c - 1].phase # "unmounted"
    /\ \E inj \in Injects, name \in Names, ex \in Execs, ap \in Apps, sz \in Szs :
         LET w == [World EXCEPT !.ctl[c] =
                     [Unmounted EXCEPT !.phase = "mounted",
                                       !.injectScript = inj,
                                       !.onLoadCallbackName = name,
                                       !.execution = ex,
                                       !.appearance = ap,
                                       !.size = sz,
                                       !.containerStyle =
                                           styleFor(ex, ap, widgetSize(sz))]]
         IN Becomes(Quiet(commit(w, c, TRUE, FALSE, FALSE, FALSE)))

\* The injected script finishes loading: it defines window.turnstile and
\* calls the function its onload parameter names, if the window holds one.
ScriptLoad ==
    /\ document.script \in {"loading", "defined"}
    /\ LET w == [World EXCEPT !.document.script = "loaded",
                              !.window.turnstile = TRUE]
       IN Becomes(Quiet(IF document.onload \in window.callbacks
                        THEN onLoadCallback(w, document.onload)
                        ELSE w))

\* The script defines window.turnstile some time before it calls the
\* function its onload parameter names.
ScriptDefine ==
    /\ document.script = "loading"
    /\ Becomes(Quiet([World EXCEPT !.document.script = "defined",
                                   !.window.turnstile = TRUE]))

\* use-observe-script: the hook's state becomes true once the script element
\* is in the document.
ObserveScript(c) ==
    /\ ctl[c].phase = "mounted"
    /\ ~ctl[c].scriptLoaded
    /\ document.script # "none"
    /\ Becomes(Quiet([World EXCEPT !.ctl[c].scriptLoaded = TRUE]))

\* A state of the component changed: it renders again and its effects run.
Rerender(c) ==
    /\ ctl[c].phase = "mounted"
    /\ \/ ctl[c].turnstileLoaded # ctl[c].depLoaded
       \/ ctl[c].scriptLoaded # ctl[c].depScript
    /\ \E ok \in BOOLEAN :
         LET w == commit(World, c, FALSE, FALSE, FALSE, ok)
         IN Len(w.widgets) <= MaxWidgets /\ Becomes(Quiet(w))

\* The parent renders the component with other options: renderConfig is a
\* new object (lib.tsx:86-128), and so may be execution, appearance or size.
ChangeConfig(c, Execs, Apps, Szs) ==
    /\ ctl[c].phase = "mounted"
    /\ \E ex \in Execs, ap \in Apps, sz \in Szs, ok \in BOOLEAN :
         LET styleChanged == <<ex, ap, widgetSize(sz)>> #
                 <<ctl[c].execution, ctl[c].appearance, widgetSize(ctl[c].size)>>
             w == commit([World EXCEPT !.ctl[c].execution = ex,
                                       !.ctl[c].appearance = ap,
                                       !.ctl[c].size = sz],
                         c, FALSE, TRUE, styleChanged, ok)
         IN Len(w.widgets) <= MaxWidgets /\ Becomes(Quiet(w))

\* The component unmounts: the cleanups of its effects run and the ref the
\* parent holds is cleared.
Unmount(c) ==
    /\ ctl[c].phase = "mounted"
    /\ Becomes(Quiet([renderWidgetCleanup(World, c) EXCEPT
                          !.ctl[c].phase = "gone",
                          !.ctl[c].hasCleanup = FALSE,
                          !.ctl[c].handle = "none"]))

\* lib.tsx:91-94: renderConfig.callback of the component that rendered the widget
callback(w, id, token) ==
    [w EXCEPT !.ctl[w.widgets[id].owner].widgetSolved = TRUE]

\* The library reports a challenge solved and calls the widget's callback.
Success(id) ==
    /\ id \in 1..Len(widgets)
    /\ widgets[id].live
    /\ \E tok \in Tokens :
         Becomes(noteSolved(Quiet(
             callback([World EXCEPT !.widgets[id].token = tok,
                                    !.widgets[id].solvedSince = TRUE],
                      id, tok))))

\* The token of a solved widget expires.
Expire(id) ==
    /\ id \in 1..Len(widgets)
    /\ widgets[id].live
    /\ widgets[id].token # NoToken
    /\ Becomes(Quiet([World EXCEPT !.widgets[id].token = NoToken]))

HandleGetResponse(c) ==
    /\ ctl[c].handle # "none"
    /\ Becomes(getResponse(World, c))

HandleReset(c) ==
    /\ ctl[c].handle # "none"
    /\ \E throws \in BOOLEAN : Becomes(reset(World, c, throws))

HandleRemove(c) ==
    /\ ctl[c].handle # "none"
    /\ \E throws \in BOOLEAN : Becomes(remove(World, c, throws))

HandleRender(c) ==
    /\ ctl[c].handle # "none"
    /\ \E ok \in BOOLEAN :
         LET w == render(World, c, ok)
         IN Len(w.widgets) <= MaxWidgets /\ Becomes(w)

HandleExecute(c) ==
    /\ ctl[c].handle # "none"
    /\ Becomes(execute(World, c))

HandleIsExpired(c) ==
    /\ ctl[c].handle # "none"
    /\ Becomes(isExpired(World, c))

\* lib.tsx:194-228: getResponsePromise(timeout, retry) builds the promise and
\* runs checkLoaded for the first time
CallGetResponsePromise(c) ==
    /\ ctl[c].handle # "none"
    /\ ~poll.active
    /\ \E timeout \in Timeouts, retry \in Retries, throws \in BOOLEAN :
         Becomes(Quiet(checkLoaded(
             noteSolved([World EXCEPT !.poll = [IdlePoll EXCEPT !.active = TRUE,
                                                               !.c = c,
                                                               !.timeout = timeout,
                                                               !.retry = retry]]),
             throws)))

\* lib.tsx:223-224: the sleep of retry is over and checkLoaded runs again
PollWake ==
    /\ poll.active
    /\ poll.wakeAt = poll.now
    /\ \E throws \in BOOLEAN : Becomes(Quiet(checkLoaded(World, throws)))

\* lib.tsx:217-220
TimeoutFire ==
    /\ poll.active
    /\ poll.timeoutId = "pending"
    /\ poll.timeoutAt = poll.now
    /\ Becomes(Quiet([World EXCEPT !.poll = timeoutFired(poll)]))

\* Time passes while a call is in progress; a timer that is due runs first.
Tick ==
    /\ poll.active
    /\ poll.now < MaxTime
    /\ poll.wakeAt # poll.now
    /\ ~(poll.timeoutId = "pending" /\ poll.timeoutAt = poll.now)
    /\ Becomes(Quiet([World EXCEPT !.poll.now = @ + 1]))

\* ------------------------------------------------------- specifications
\* Spec: the loader and the widget lifecycle of MaxControllers components
\* that differ in injectScript and in the name of the onload callback.
\* Here the script may define window.turnstile before it calls its onload
\* function, so that the fallback effect can mark a component before the
\* loader's signal does.
Next ==
    \/ ScriptLoad
    \/ ScriptDefine
    \/ \E c \in Controllers :
         Mount(c, BOOLEAN, CallbackNames, {"render"}, {"always"}, {"normal"})
    \/ \E c \in Controllers : ObserveScript(c)
    \/ \E c \in Controllers : Rerender(c)
    \/ \E c \in Controllers : Unmount(c)

Spec == Init /\ [][Next]_vars

\* LoaderLiveSpec: the same components when the script observation never
\* reports the script element, so that only the loader's signal can make a
\* component ready.  The browser runs the script it has fetched and a
\* component whose state changed renders again: both are weakly fair.
LoaderLiveNext ==
    \/ ScriptLoad
    \/ \E c \in Controllers :
         Mount(c, BOOLEAN, CallbackNames, {"render"}, {"always"}, {"normal"})
    \/ \E c \in Controllers : Rerender(c)
    \/ \E c \in Controllers : Unmount(c)

LoaderLiveSpec ==
    /\ Init
    /\ [][LoaderLiveNext]_vars
    /\ WF_vars(ScriptLoad)
    /\ \A c \in Controllers : WF_vars(Rerender(c))

\* HandleSpec: one component with every combination of execution, appearance
\* and size, and every operation of its imperative handle.
HandleNext ==
    \/ ScriptLoad
    \/ Mount(1, BOOLEAN, {"onloadTurnstileCallback"}, Executions, Appearances,
             Sizes \ {"normal"})
    \/ ObserveScript(1)
    \/ Rerender(1)
    \/ ChangeConfig(1, Executions, Appearances, Sizes \ {"normal"})
    \/ Unmount(1)
    \/ \E id \in 1..MaxWidgets : Success(id)
    \/ \E id \in 1..MaxWidgets : Expire(id)
    \/ HandleGetResponse(1)
    \/ HandleReset(1)
    \/ HandleRemove(1)
    \/ HandleRender(1)
    \/ HandleExecute(1)
    \/ HandleIsExpired(1)

HandleSpec == Init /\ [][HandleNext]_vars

\* PollSpec: one component and one getResponsePromise call, with the clock
\* of that call.
PollNext ==
    \/ ScriptLoad
    \/ Mount(1, {TRUE}, {"onloadTurnstileCallback"}, {"render"}, {"always"}, {"normal"})
    \/ ObserveScript(1)
    \/ Rerender(1)
    \/ Unmount(1)
    \/ \E id \in 1..MaxWidgets : Success(id)
    \/ \E id \in 1..MaxWidgets : Expire(id)
    \/ HandleReset(1)
    \/ HandleRemove(1)
    \/ CallGetResponsePromise(1)
    \/ PollWake
    \/ TimeoutFire
    \/ Tick

PollSpec == Init /\ [][PollNext]_vars

\* ------------------------------------------------------------- properties
\* the widgets of component c that the library holds registered
liveOf(c) == {id \in 1..Len(widgets) : widgets[id].owner = c /\ widgets[id].live}

\* C1: at every moment every component has at most one widget of its own
\* render calls registered (rendered and not removed) in the library.
C1_AtMostOneLiveWidget ==
    \A c \in Controllers : Cardinality(liveOf(c)) <= 1

\* C2: however many components call ensureTurnstile, and in whatever order,
\* the onload callback is put on the window at most once, the ready signal
\* is resolved at most once, and a call made once the status is loading or
\* ready leaves the whole loader state as it is.
C2_LoaderOnce ==
    /\ window.installs <= 1
    /\ Cardinality(window.callbacks) <= 1
    /\ turnstileLoad.resolveCalls <= 1
    /\ turnstileState # "unloaded" =>
          \A name \in CallbackNames : ensureTurnstile(World, name) = World

\* both components waited on the signal before it was resolved, and neither
\* was made ready by the fallback
C2_Witness ==
    /\ turnstileState = "ready"
    /\ window.installs = 1
    /\ turnstileLoad.resolveCalls = 1
    /\ \A c \in Controllers :
          /\ ctl[c].phase = "mounted"
          /\ ctl[c].turnstileLoaded
          /\ ~ctl[c].scriptLoaded

\* the calls of injectTurnstileScript made so far
RECURSIVE injectCallsOf(_)
injectCallsOf(n) == IF n = 0 THEN 0 ELSE ctl[n].injectCalls + injectCallsOf(n - 1)

injectCallsTotal == injectCallsOf(MaxControllers)

injecting(c) == ctl[c].phase # "unmounted" /\ ctl[c].injectScript

\* C3 as stated: once components with injectScript have mounted, exactly one
\* call of injectTurnstileScript has been made.
C3_ExactlyOneInjectCall ==
    (\E c \in Controllers : injecting(c)) => injectCallsTotal = 1

\* C3 as amended: every component mounted with injectScript calls
\* injectTurnstileScript exactly once, at its mount, and a component without
\* it never does; the document holds one script tag however many calls there
\* were.
C3_OneInjectCallPerMount ==
    /\ \A c \in Controllers :
          ctl[c].injectCalls = IF injecting(c) THEN 1 ELSE 0
    /\ document.tags <= 1
    /\ (\E c \in Controllers : injecting(c)) => document.tags = 1

\* all components mounted with injectScript, the first before the loader
\* was ready
C3_Witness ==
    /\ \A c \in Controllers : injecting(c) /\ ctl[c].turnstileLoaded
    /\ injectCallsTotal = MaxControllers
    /\ document.tags = 1

\* C4: every component that is mounted when the loader status is ready,
\* whether it mounted before or after the status became ready, eventually has
\* turnstileLoaded true (or is unmounted), through the loader's signal alone.
C4_EventuallyLoaded ==
    \A c \in Controllers :
        (ctl[c].phase = "mounted" /\ turnstileState = "ready")
            ~> (ctl[c].turnstileLoaded \/ ctl[c].phase # "mounted")

\* C5: an external render call that returns an id leaves widgetId equal to
\* that id and onWidgetLoad called once with it, and no later step calls
\* onWidgetLoad with it again; a render() of the handle made while an id is
\* held registers no widget, calls onWidgetLoad for none and leaves widgetId
\* as it was.
C5_RenderStoresIdOnce ==
    [][ /\ \A id \in (Len(widgets) + 1)..Len(widgets') :
              /\ ctl'[widgets'[id].owner].widgetId = id
              /\ widgets'[id].loadCalls = 1
        /\ \A id \in 1..Len(widgets) :
              widgets'[id].loadCalls = widgets[id].loadCalls
        /\ (last'.op = "render" /\ ctl[last'.c].widgetId # NoId) =>
              /\ ~last'.pre
              /\ last'.ret = NoId
              /\ widgets' = widgets
              /\ ctl'[last'.c].widgetId = ctl[last'.c].widgetId
      ]_vars

\* render() was refused only because the id of a registered widget was held
C5_Witness ==
    /\ last.op = "render"
    /\ ~last.pre
    /\ last.held # NoId
    /\ ctl[last.c].handle = "lib"
    /\ ctl[last.c].phase = "mounted"
    /\ window.turnstile
    /\ ctl[last.c].widgetId = last.held
    /\ widgets[last.held].live
    /\ widgets[last.held].loadCalls = 1

\* C8: a remove() of the handle that passed its guard leaves widgetId null,
\* solved false and the container invisible, has called the external remove
\* with the held id, and a render() that follows at once is let through.
C8_RemoveClearsId ==
    (last.op = "remove" /\ last.pre) =>
        /\ last.ext = "remove"
        /\ widgets[last.held].removeCalls >= 1
        /\ ~ctl[last.c].widgetSolved
        /\ ctl[last.c].containerStyle = "invisible"
        /\ ctl[last.c].widgetId = NoId
        /\ ~renderRefused(World, last.c)

\* C9: remove() never lets an exception of the external remove call reach
\* its caller.
C9_RemoveNeverThrows ==
    last.op = "remove" => ~last.threw

\* C10: a reset() of the handle made with an id held and the library present
\* leaves solved false, makes the container invisible when execution is
\* execute (and leaves its style alone otherwise), calls the external reset
\* with the held id, keeps widgetId, and lets no exception reach the caller
\* even when the external reset throws.
C10_ResetClearsSolved ==
    [][ (last'.op = "reset" /\ hasWidget(World, last'.c)) =>
            LET c == last'.c
                id == ctl[c].widgetId
            IN /\ last'.pre
               /\ last'.ext = "reset"
               /\ last'.held = id
               /\ ~last'.threw
               /\ ~ctl'[c].widgetSolved
               /\ ctl'[c].widgetId = id
               /\ ctl'[c].containerStyle =
                     IF ctl[c].execution = "execute" THEN "invisible"
                     ELSE ctl[c].containerStyle
               /\ ~last'.extThrew =>
                     widgets'[id].token = NoToken /\ ~widgets'[id].solvedSince
      ]_vars

\* the external reset threw in execute mode: solved is false, the id is kept
C10_Witness ==
    /\ last.op = "reset"
    /\ last.pre
    /\ last.extThrew
    /\ ~last.threw
    /\ ctl[last.c].execution = "execute"
    /\ ctl[last.c].containerStyle = "invisible"
    /\ ctl[last.c].widgetId = last.held
    /\ widgets[last.held].solvedSince
    /\ ~ctl[last.c].widgetSolved

\* C6: when solved is never true during a getResponsePromise(timeout, retry)
\* call, the promise is rejected with the timeout error, not before timeout
\* has passed since the call and not after timeout + retry.
C6_TimeoutWindow ==
    /\ poll.outcome = "timeout" =>
          /\ poll.settledAt >= poll.timeout
          /\ poll.settledAt <= poll.timeout + poll.retry
    /\ (poll.active /\ ~poll.sawSolved) =>
          /\ poll.outcome \in {"pending", "timeout"}
          /\ poll.outcome = "pending" => poll.now <= poll.timeout
          /\ poll.now > poll.timeout + poll.retry => poll.outcome = "timeout"

\* the widget never solved, the clock is past timeout + retry and the
\* promise was rejected with the timeout error
C6_Witness ==
    /\ poll.active
    /\ ~poll.sawSolved
    /\ poll.timeout > poll.retry
    /\ poll.now > poll.timeout + poll.retry
    /\ poll.outcome = "timeout"
    /\ poll.settledAt = poll.timeout

\* a step in which checkLoaded runs: the call itself, or the end of a sleep
\* (which sets the next sleep or ends the loop)
checkStep ==
    /\ poll'.active
    /\ ~poll.active \/ (poll.wakeAt = poll.now /\ poll'.wakeAt # poll.wakeAt)

\* C7: a check of getResponsePromise made before the promise has settled, with
\* solved true and an id held, settles the promise in that very step: with
\* the token the external getResponse returns when it is not empty, and with
\* a no-response or failed-response error, never the timeout error, when it is
\* empty or the call throws.  While the promise is pending the next check is
\* at most one retry interval away, and a settled promise never changes.
C7_SolvedPollSettles ==
    [][ /\ (checkStep /\ poll.outcome = "pending"
            /\ solvedWithWidget([World EXCEPT !.poll.c = poll'.c])) =>
              LET token == libGetResponse(World, ctl[poll'.c].widgetId)
              IN /\ poll'.settledAt = poll'.now
                 /\ poll'.now = poll.now
                 /\ \/ poll'.outcome = "failed" /\ poll'.value = NoToken
                    \/ /\ token # NoToken
                       /\ poll'.outcome = "fulfilled"
                       /\ poll'.value = token
                    \/ /\ token = NoToken
                       /\ poll'.outcome = "noResponse"
                       /\ poll'.value = NoToken
        /\ (poll'.active /\ poll'.outcome = "pending") =>
              /\ poll'.wakeAt >= poll'.now
              /\ poll'.wakeAt <= poll'.now + poll'.retry
        /\ (poll.active /\ poll.outcome # "pending") =>
              /\ poll'.outcome = poll.outcome
              /\ poll'.value = poll.value
              /\ poll'.settledAt = poll.settledAt
      ]_vars

\* the widget was solved while the call was polling and the promise was
\* fulfilled with its token before the timeout
C7_Witness ==
    /\ poll.active
    /\ poll.outcome = "fulfilled"
    /\ poll.settledAt > 0
    /\ poll.settledAt < poll.timeout
    /\ poll.timeoutId = "cleared"
    /\ poll.value \in Tokens
    /\ poll.value = widgets[ctl[poll.c].widgetId].token

\* the methods of the handle that return at once
HandleOps == {"getResponse", "reset", "remove", "render", "execute", "isExpired"}

\* the precondition of handle method op of component c is not met: the
\* library is absent, or no id is held (an id is held, for render), or the
\* container is absent (render and execute), or execution is not execute
\* (execute)
unmet(op, c) ==
    \/ ~window.turnstile
    \/ op # "render" /\ ctl[c].widgetId = NoId
    \/ op = "render" /\ ctl[c].widgetId # NoId
    \/ op \in {"render", "execute"} /\ ctl[c].phase # "mounted"
    \/ op = "execute" /\ ctl[c].execution # "execute"

\* C11: a handle method called while its precondition is not met makes no
\* external call, leaves widgetId, solved and containerStyle (and all else of
\* the component and of the library) as they were, returns nothing and
\* throws nothing.
C11_RefusedCallChangesNothing ==
    [][ (last'.op \in HandleOps /\ unmet(last'.op, last'.c)) =>
            /\ ~last'.pre
            /\ last'.ext = "none"
            /\ ~last'.threw
            /\ last'.ret = NoId
            /\ last'.tok = NoToken
            /\ widgets' = widgets
            /\ ctl' = ctl
            /\ window' = window
      ]_vars

\* execute() was refused only because execution is not execute: the id of a
\* registered widget is held and the library is present
C11_Witness ==
    /\ last.op = "execute"
    /\ ~last.pre
    /\ last.held # NoId
    /\ ctl[last.c].widgetId = last.held
    /\ widgets[last.held].live
    /\ ctl[last.c].handle = "lib"
    /\ window.turnstile
    /\ ctl[last.c].execution = "render"
    /\ ctl[last.c].containerStyle = "interactionOnly"

\* the calls of onWidgetLoad made for the widgets of component c
loadCallsOf(ws, c) ==
    [id \in {i \in 1..Len(ws) : ws[i].owner = c} |-> ws[id].loadCalls]

\* C12: once a component has unmounted, no step assigns its widgetId, renders
\* a widget for it or calls its onWidgetLoad, also when the loader's signal
\* arrives only after the unmount; the unmount itself stores no id either.
C12_NothingStoredAfterUnmount ==
    [][ \A c \in Controllers :
          (ctl[c].phase = "gone" \/ ctl'[c].phase = "gone") =>
              /\ ctl'[c].widgetId = ctl[c].widgetId
              /\ loadCallsOf(widgets', c) = loadCallsOf(widgets, c)
      ]_vars

\* the component unmounted while it waited for the loader, the signal was
\* resolved afterwards, and nothing was rendered for it
C12_Witness ==
    /\ ctl[1].phase = "gone"
    /\ ctl[2].phase = "unmounted"
    /\ window.installs = 1
    /\ turnstileLoad.resolveCalls = 1
    /\ turnstileState = "ready"
    /\ ~ctl[1].turnstileLoaded
    /\ ctl[1].widgetId = NoId
    /\ widgets = <<>>

\* lib.tsx:22: the position of a loader status in unloaded, loading, ready
statusRank(st) == CASE st = "unloaded" -> 0 [] st = "loading" -> 1 [] st = "ready" -> 2

\* C13: the loader status never regresses and never skips loading; the ready
\* signal is resolved only in a step that takes the status from loading to
\* ready, and the continuations of the waiting components run, and the signal
\* is settled, only with the status ready.
C13_LoaderStatusMonotone ==
    [][ /\ statusRank(turnstileState') \in
               {statusRank(turnstileState), statusRank(turnstileState) + 1}
        /\ turnstileLoad'.resolveCalls # turnstileLoad.resolveCalls =>
               turnstileState = "loading" /\ turnstileState' = "ready"
        /\ turnstileLoad'.settled => turnstileState' = "ready"
        /\ \A c \in turnstileLoad.waiters \ turnstileLoad'.waiters :
               turnstileState' = "ready"
      ]_vars

\* the status is ready, the signal was resolved by the one installed callback
\* and both components, which waited for it, are marked loaded
C13_Witness ==
    /\ turnstileState = "ready"
    /\ turnstileLoad.settled
    /\ turnstileLoad.resolveCalls = 1
    /\ turnstileLoad.waiters = {}
    /\ \A c \in Controllers : ctl[c].phase = "mounted" /\ ctl[c].turnstileLoaded
                              /\ ~ctl[c].scriptLoaded

\* C14: execute() calls the external execute exactly when the execution mode
\* is execute and an id, the container and the library are present; it then
\* changes nothing of the component but the container style, which becomes the
\* style of the configured size; in every other case it makes no external
\* call and leaves the container style as it was.
C14_ExecuteGuardAndStyle ==
    [][ last'.op = "execute" =>
          LET c == last'.c
          IN IF /\ ctl[c].execution = "execute"
                /\ ctl[c].widgetId # NoId
                /\ ctl[c].phase = "mounted"
                /\ window.turnstile
             THEN /\ last'.ext = "execute"
                  /\ ~last'.threw
                  /\ last'.held = ctl[c].widgetId
                  /\ ctl' = [ctl EXCEPT ![c].containerStyle =
                                           IF ctl[c].size = "unset" THEN "normal"
                                           ELSE ctl[c].size]
                  /\ widgets' = widgets
             ELSE /\ last'.ext = "none"
                  /\ ctl'[c].containerStyle = ctl[c].containerStyle
      ]_vars

\* execute() has just shown a compact widget that was hidden before
C14_Witness ==
    /\ last.op = "execute"
    /\ last.ext = "execute"
    /\ ctl[last.c].execution = "execute"
    /\ ctl[last.c].size = "compact"
    /\ ctl[last.c].containerStyle = "compact"
    /\ widgets[last.held].live

C16_NoPollAfterSettle ==
    [][ (poll.active /\ poll.outcome # "pending") =>
            /\ poll'.wakeAt \in {poll.wakeAt, NoWake}
            /\ poll'.settleCalls = poll.settleCalls
      ]_vars

\* C17: a getResponsePromise call creates at most one timeout timer however
\* often it polls, none when its first check finds the widget solved, and
\* once its promise has settled no timeout timer of the call is pending.
C17_OneTimeoutTimer ==
    /\ poll.timers <= 1
    /\ poll.timers = 0 <=> poll.timeoutId = "unset"
    /\ poll.outcome # "pending" => poll.timeoutId # "pending"
    /\ (poll.outcome \in {"fulfilled", "noResponse", "failed"}
        /\ poll.settledAt = 0) => poll.timers = 0

\* the call polled at least three times, made one timer and cleared it when
\* it was fulfilled
C17_Witness ==
    /\ poll.active
    /\ poll.retry = 1
    /\ poll.settledAt >= 2
    /\ poll.outcome = "fulfilled"
    /\ poll.timers = 1
    /\ poll.timeoutId = "cleared"

\* C18: whenever a component holds a widget id, the widget of that id is
\* registered in the library, and no widget has been removed more than once.
C18_HeldIdIsRegistered ==
    /\ \A c \in Controllers :
          ctl[c].widgetId # NoId => widgets[ctl[c].widgetId].live
    /\ \A id \in 1..Len(widgets) : widgets[id].removeCalls <= 1

\* C19: whenever solved is true for a mounted component, the component holds
\* a widget id and the widget of that id has called the success callback
\* since it was rendered or last reset.
C19_SolvedMeansCurrentWidgetSolved ==
    \A c \in Controllers :
        (ctl[c].phase = "mounted" /\ ctl[c].widgetSolved) =>
            /\ ctl[c].widgetId # NoId
            /\ widgets[ctl[c].widgetId].solvedSince

\* C20: however the loader's signal and the script observation reach a
\* component, its render effect calls the external render at most once for
\* one configuration, and exactly once when the component has rendered as
\* loaded.
C20_OneAutomaticRender ==
    \A c \in Controllers :
        /\ ctl[c].autoRenders <= 1
        /\ (ctl[c].phase = "mounted" /\ ctl[c].depLoaded) => ctl[c].autoRenders = 1

\* the fallback effect and the loader's continuation have both called
\* setTurnstileLoaded(true) for component 1, which rendered one widget
C20_Witness ==
    /\ ctl[1].phase = "mounted"
    /\ ctl[1].readyMarks = 2
    /\ ctl[1].depLoaded
    /\ ctl[1].depScript
    /\ turnstileState = "ready"
    /\ ctl[1].autoRenders = 1
    /\ ctl[1].widgetId # NoId

====
